---- MODULE Spec2Model ----
(***************************************************************************)
(* Model of the Bookly appointments collector (scraper.py) and of the      *)
(* dashboard's refresh wrapper around it (dashboard.py refresh_data /      *)
(* restore_backup / load_data).                                            *)
(*                                                                         *)
(* Files are modelled by their content.  A content ("body") is a record    *)
(*   kind  : "absent"  no such file                                        *)
(*           "none"    Python None (no bytes at all)                       *)
(*           "failed"  the request raised requests.RequestException        *)
(*           "empty"   zero bytes                                          *)
(*           "partial" a strict, non-empty prefix of the bytes being       *)
(*                     written                                             *)
(*           "bad"     non-empty bytes pandas.read_csv rejects             *)
(*           "csv"     bytes pandas.read_csv accepts                       *)
(*   idcol : the parsed table has a column named ID                        *)
(*   rows  : the parsed rows, each [ID, val]; val stands for the other     *)
(*           columns of the row, two values being enough to tell the rows  *)
(*           of one identifier apart                                       *)
(*   fmt   : "server" bytes exactly as the remote system sent them,        *)
(*           "pandas" bytes produced by DataFrame.to_csv                   *)
(***************************************************************************)
EXTENDS Integers, Sequences, FiniteSets, TLC

\* ------------------------------------------------------------------ bounds
MaxId == 2       \* identifiers are 1..MaxId
MaxRows == 2     \* rows per batch handed to merge_csv_responses alone
MaxRunRows == 1  \* rows per response in a whole collector run
MaxColumns == 2  \* columns of a frame handed to get_best_column alone
MaxPatterns == 3 \* patterns handed to get_best_column alone
MaxFileRows == 2
MaxWords == 3 \* rows of the Appointments.csv a render loads

\* ------------------------------------------------------------------ bodies
Body(k, c, r, f) == [kind |-> k, idcol |-> c, rows |-> r, fmt |-> f]

Absent == Body("absent", FALSE, <<>>, "none")
None == Body("none", FALSE, <<>>, "none")
Failed == Body("failed", FALSE, <<>>, "none")
EmptyBody == Body("empty", FALSE, <<>>, "none")
PartialBody == Body("partial", FALSE, <<>>, "none")
BadBody == Body("bad", FALSE, <<>>, "server")

Vals == {"a", "b"}
Row(i, v) == [ID |-> i, val |-> v]
IdRows == {Row(i, v) : i \in 1..MaxId, v \in Vals}
SeqUpTo(S, n) == UNION {[1..k -> S] : k \in 0..n}

\* what the export endpoint can answer with HTTP 200, at most n rows
ServerBodies(n) ==
    {EmptyBody, BadBody}
    \cup {Body("csv", TRUE, r, "server") : r \in SeqUpTo(IdRows, n)}
    \cup {Body("csv", FALSE, r, "server") : r \in SeqUpTo({Row(0, "a")}, 1)}

\* the byte strings merge_csv_responses is applied to on its own
MergeInputs == ServerBodies(MaxRows)

\* outcome of session.post + raise_for_status; in a whole run the rows'
\* payload is not varied, only their identifiers
RequestOutcomes ==
    {Failed} \cup {b \in ServerBodies(MaxRunRows) :
                      \A i \in DOMAIN b.rows : b.rows[i].val = "a"}

\* a destination file left by an earlier successful run
OldFile == Body("csv", TRUE, <<Row(1, "a")>>, "pandas")
InitialFiles == {Absent, OldFile, PartialBody}

\* bool(b) for an Optional[bytes]
Truthy(b) == b.kind \in {"partial", "bad", "csv"}

\* pd.read_csv succeeds
Parses(b) == b.kind = "csv"

\* ------------------------------------------------------ merge_csv_responses
Ids(s) == {s[i].ID : i \in DOMAIN s}

\* the subsequence of s at the indices in keep, in order
RECURSIVE Pick(_, _, _)
Pick(s, keep, i) ==
    IF i > Len(s) THEN <<>>
    ELSE (IF i \in keep THEN <<s[i]>> ELSE <<>>) \o Pick(s, keep, i + 1)

drop_duplicates_last(s) ==
    Pick(s, {i \in DOMAIN s : \A j \in (i + 1)..Len(s) : s[j].ID # s[i].ID}, 1)

\* DataFrame.drop_duplicates(subset=['ID'], keep='first')
drop_duplicates(s) ==
    Pick(s, {i \in DOMAIN s : \A j \in 1..(i - 1) : s[j].ID # s[i].ID}, 1)

RECURSIVE Insert(_, _)
Insert(r, s) ==
    IF s = <<>> THEN <<r>>
    ELSE IF r.ID < Head(s).ID THEN <<r>> \o s
    ELSE <<Head(s)>> \o Insert(r, Tail(s))

RECURSIVE SortById(_)
SortById(s) == IF s = <<>> THEN <<>> ELSE Insert(Head(s), SortById(Tail(s)))

sort_values_unsorted(s) == s

\* DataFrame.sort_values('ID')
sort_values(s) == SortById(s)

\* pd.concat([df1, df2], ignore_index=True)
concat(s1, s2) == s1 \o s2

\* merged bytes, or None when a read fails or an ID column is missing
merge_csv_responses(csv_1, csv_2) ==
    IF Parses(csv_1) /\ Parses(csv_2) /\ csv_1.idcol /\ csv_2.idcol
    THEN Body("csv", TRUE,
              sort_values(drop_duplicates(concat(csv_1.rows, csv_2.rows))),
              "pandas")
    ELSE None

merge_fallback_none(resp_1, merged_csv) ==
    IF Truthy(merged_csv) THEN merged_csv ELSE None

\* export_appointments, lines 184-195: the merged bytes or the first response
merge_fallback(resp_1, merged_csv) ==
    IF Truthy(merged_csv) THEN merged_csv ELSE resp_1

second_failure_fallback(resp_1) == resp_1

\* export_appointments, lines 179-181: what it returns when request 2 raises
second_failure(resp_1) == None

\* ------------------------------------------------------------------ dashboard
\* a data frame: column names, their dtypes, and the rows as cell sequences
Frame(c, t, r) == [columns |-> c, dtypes |-> t, rows |-> r]

\* self.df = None
NoFrame == Frame(<<>>, <<>>, <<>>)

\* a widget that was not rendered
NoInput == [kind |-> "none", set |-> {}, lo |-> 0, hi |-> 0]

\* nothing displayed yet
NoSummary == [kind |-> "none", n |-> 0, m |-> 0]

\* Optional[str] None
NoColumn == <<>>

\* a metric that was not displayed, "N/A", or the ratio num / den of two
\* whole numbers
Metric(kind, num, den) == [kind |-> kind, num |-> num, den |-> den]
NoMetrics ==
    [total |-> Metric("none", 0, 1), revenue |-> Metric("none", 0, 1),
     average |-> Metric("none", 0, 1), customers |-> Metric("none", 0, 1)]

\* no login request was answered
NoPage == [transport |-> FALSE, text |-> <<>>]

\* DASHBOARD_USERNAME and DASHBOARD_PASSWORD as the secrets or the environment
\* hold them; "" is a variable that is not set
Users(username, password) == [username |-> username, password |-> password]
NoUsers == Users("", "")

\* st.session_state; "" is a username that is not set
SignedIn(username) == [authenticated |-> TRUE, username |-> username]
SignedOut == [authenticated |-> FALSE, username |-> ""]

\* what the login form holds: the fields as submitted and the message shown
Submission(username, password, message) ==
    [username |-> username, password |-> password, message |-> message]
NoSubmission == Submission("", "", "none")

\* the dict load_users returns, as a set of (username, password) pairs
load_users(env) ==
    IF env.username # "" /\ env.password # ""
    THEN {<<env.username, env.password>>}
    ELSE {}

\* users.get(username) == password
authenticate_user_named(env, username, password) ==
    \E u \in load_users(env) : u[1] = username
authenticate_user(env, username, password) ==
    \E u \in load_users(env) : u[1] = username /\ u[2] = password

check_authentication(state) == state.authenticated

\* what may be configured, and what a visitor may type into the form
Typed ==
    [configured |-> {Users(u, p) : u \in {"", "admin"}, p \in {"", "secret"}},
     username |-> {"", "admin", "eve"},
     password |-> {"", "secret", "guess"}]

\* --------------------------------------------------------------------- text
\* a str is the sequence of its characters
UpperCase ==
    <<"A", "B", "C", "D", "E", "F", "G", "H", "I", "J", "K", "L", "M", "N",
    "O", "P", "Q", "R", "S", "T", "U", "V", "W", "X", "Y", "Z">>
LowerCase ==
    <<"a", "b", "c", "d", "e", "f", "g", "h", "i", "j", "k", "l", "m", "n",
    "o", "p", "q", "r", "s", "t", "u", "v", "w", "x", "y", "z">>

\* str.lower, one character
ToLower(c) ==
    IF \E i \in DOMAIN UpperCase : UpperCase[i] = c
    THEN LowerCase[CHOOSE i \in DOMAIN UpperCase : UpperCase[i] = c]
    ELSE c

\* str.lower
Lower(s) == [i \in DOMAIN s |-> ToLower(s[i])]

\* p in s
Contains(p, s) ==
    \E i \in 0..(Len(s) - Len(p)) : SubSeq(s, i + 1, i + Len(p)) = p

\* column names of the export
Names ==
    [start_date |-> <<"S", "t", "a", "r", "t", " ", "D", "a", "t", "e">>,
     created_date |->
         <<"C", "r", "e", "a", "t", "e", "d", "_", "D", "a", "t", "e">>,
     status |-> <<"S", "t", "a", "t", "u", "s">>,
     service |-> <<"S", "e", "r", "v", "i", "c", "e">>,
     role |-> <<"R", "o", "l", "e">>,
     country |-> <<"C", "o", "u", "n", "t", "r", "y">>,
     price |-> <<"P", "r", "i", "c", "e">>,
     payment |-> <<"P", "a", "y", "m", "e", "n", "t">>,
     duration |-> <<"D", "u", "r", "a", "t", "i", "o", "n">>,
     email |-> <<"E", "m", "a", "i", "l">>]

\* suffixes of the dashboard's derived columns
NumericSuffix == <<"_", "n", "u", "m", "e", "r", "i", "c">>
HoursSuffix == <<"_", "h", "o", "u", "r", "s">>

\* the patterns the dashboard looks columns up with
Patterns ==
    [appointment_date |->
         <<"a", "p", "p", "o", "i", "n", "t", "m", "e", "n", "t", " ", "d", "a", "t", "e">>,
     date |-> <<"d", "a", "t", "e">>,
     start |-> <<"s", "t", "a", "r", "t">>,
     created |-> <<"c", "r", "e", "a", "t", "e", "d">>,
     status |-> <<"s", "t", "a", "t", "u", "s">>,
     service |-> <<"s", "e", "r", "v", "i", "c", "e">>,
     role |-> <<"r", "o", "l", "e">>,
     country |-> <<"c", "o", "u", "n", "t", "r", "y">>,
     price |-> <<"p", "r", "i", "c", "e">>,
     payment |-> <<"p", "a", "y", "m", "e", "n", "t">>,
     duration |-> <<"d", "u", "r", "a", "t", "i", "o", "n">>,
     email |-> <<"e", "m", "a", "i", "l">>]

\* -------------------------------------------------------------------- frames
\* a cell: missing (NaN/NaT), text, a number in hundredths, or a timestamp in
\* hours since the start of the month
NA == [k |-> "na", s |-> <<>>, n |-> 0]
Txt(t) == [k |-> "txt", s |-> t, n |-> 0]
Num(x) == [k |-> "num", s |-> <<>>, n |-> x]
Ts(h) == [k |-> "ts", s |-> <<>>, n |-> h]

\* position of a column, 0 when the frame has no such column
ColIndex(f, name) ==
    IF \E i \in DOMAIN f.columns : f.columns[i] = name
    THEN CHOOSE i \in DOMAIN f.columns : f.columns[i] = name
    ELSE 0

\* name in df.columns
HasColumn(f, name) == ColIndex(f, name) # 0

\* df[name], one cell per row
Cells(f, name) == [r \in DOMAIN f.rows |-> f.rows[r][ColIndex(f, name)]]

\* df[name].dtype
DType(f, name) == f.dtypes[ColIndex(f, name)]

\* df[name] = cells: an existing column is replaced, a new one is appended
SetColumn(f, name, dtype, cells) ==
    IF HasColumn(f, name)
    THEN Frame(f.columns,
               [f.dtypes EXCEPT ![ColIndex(f, name)] = dtype],
               [r \in DOMAIN f.rows |->
                   [f.rows[r] EXCEPT ![ColIndex(f, name)] = cells[r]]])
    ELSE Frame(Append(f.columns, name), Append(f.dtypes, dtype),
               [r \in DOMAIN f.rows |-> Append(f.rows[r], cells[r])])

\* df[mask]: the rows at the positions in keep, in order
Rows(f, keep) == Frame(f.columns, f.dtypes, Pick(f.rows, keep, 1))

\* df[name].dropna().unique(), as a set
Values(f, name) ==
    {f.rows[r][ColIndex(f, name)] : r \in DOMAIN f.rows} \ {NA}

\* ------------------------------------------------------------ get_best_column
\* the frames and pattern lists get_best_column is applied to on its own
ColumnNames == {Names.start_date, Names.created_date, Names.status}
PatternNames == {Patterns.appointment_date, Patterns.date, Patterns.start}
ColumnLists ==
    {c \in SeqUpTo(ColumnNames, MaxColumns) :
        \A i, j \in DOMAIN c : i # j => c[i] # c[j]}
ColumnFrames ==
    {Frame(c, [i \in DOMAIN c |-> "object"], <<>>) : c \in ColumnLists}
PatternLists == SeqUpTo(PatternNames, MaxPatterns)

get_column_options_cased(f, pattern) ==
    Pick(f.columns, {i \in DOMAIN f.columns : Contains(pattern, f.columns[i])},
         1)
get_column_options(f, pattern) ==
    Pick(f.columns,
         {i \in DOMAIN f.columns :
             Contains(Lower(pattern), Lower(f.columns[i]))}, 1)

RECURSIVE best_from(_, _, _)
best_from(f, pats, j) ==
    IF j > Len(pats) THEN NoColumn
    ELSE IF get_column_options(f, pats[j]) # <<>>
         THEN get_column_options(f, pats[j])[1]
         ELSE best_from(f, pats, j + 1)

get_best_column(f, pats) == best_from(f, pats, 1)

\* least element of a non-empty set of numbers
Least(S) == CHOOSE x \in S : \A y \in S : x <= y

\* ---------------------------------------------------------------- cell texts
Digits == <<"0", "1", "2", "3", "4", "5", "6", "7", "8", "9">>

IsDigit(c) == \E i \in DOMAIN Digits : Digits[i] = c
DigitValue(c) == (CHOOSE i \in DOMAIN Digits : Digits[i] = c) - 1

\* int(s) for a run of digits, 0 for the empty run
RECURSIVE DigitsValue(_)
DigitsValue(s) ==
    IF s = <<>> THEN 0
    ELSE DigitsValue(SubSeq(s, 1, Len(s) - 1)) * 10 + DigitValue(s[Len(s)])

\* end of the run of digits that starts at position i (i - 1 when none)
RECURSIVE RunEnd(_, _)
RunEnd(s, i) ==
    IF i <= Len(s) /\ IsDigit(s[i]) THEN RunEnd(s, i + 1) ELSE i - 1

\* texts of the export: three of the statuses, and the fixed parts of a
\* timestamp of January 2024
Approved == <<"A", "p", "p", "r", "o", "v", "e", "d">>
Pending == <<"P", "e", "n", "d", "i", "n", "g">>
Expired == <<"E", "x", "p", "i", "r", "e", "d">>
DatePrefix == <<"2", "0", "2", "4", "-", "0", "1", "-">>
DateSuffix == <<":", "0", "0">>

\* ------------------------------------------------------------------ read_csv
\* a column of the file: its header and the cells a row can hold in it
Col(name, cells) == [name |-> name, cells |-> cells]

\* the dtype read_csv infers for a column
infer_dtype(cells) ==
    IF \E i \in DOMAIN cells : cells[i].k = "txt" THEN "object"
    ELSE IF \A i \in DOMAIN cells : cells[i].k = "num" /\ cells[i].n % 100 = 0
         THEN (IF cells = <<>> THEN "object" ELSE "int64")
    ELSE "float64"

\* the frames read_csv returns for files with the given columns
read_csv(schema, n) ==
    LET names == [i \in DOMAIN schema |-> schema[i].name]
        RowSet == {row \in [DOMAIN schema -> UNION {schema[i].cells :
                                                      i \in DOMAIN schema}] :
                      \A i \in DOMAIN schema : row[i] \in schema[i].cells}
    IN  {Frame(names,
               [i \in DOMAIN schema |->
                   infer_dtype([r \in DOMAIN rows |-> rows[r][i]])],
               rows) : rows \in SeqUpTo(RowSet, n)}

\* the layouts of Appointments.csv a render is applied to
Schemas ==
    LET Salsa == <<"S", "a", "l", "s", "a">>
        Leader == <<"L", "e", "a", "d", "e", "r">>
        Greece == <<"G", "R">>
        Cyprus == <<"C", "Y">>
        Day1Evening ==
            <<"2", "0", "2", "4", "-", "0", "1", "-", "0", "1", " ",
            "1", "8", ":", "0", "0">>
        Day1Morning ==
            <<"2", "0", "2", "4", "-", "0", "1", "-", "0", "1", " ",
            "0", "9", ":", "0", "0">>
        Day2Morning ==
            <<"2", "0", "2", "4", "-", "0", "1", "-", "0", "2", " ",
            "0", "9", ":", "0", "0">>
        Day3Morning ==
            <<"2", "0", "2", "4", "-", "0", "1", "-", "0", "3", " ",
            "0", "9", ":", "0", "0">>
        Unscheduled == <<"t", "b", "d">>
        Euro10 == <<"€", "1", "0">>
        Euro20 == <<"€", "2", "0">>
        Euro4550 == <<"€", "4", "5", ".", "5", "0">>
        Ann == <<"a", "@", "x">>
        Bob == <<"b", "@", "x">>
        Plain30 == <<"3", "0">>
        NotAvailable == <<"N", "/", "A">>
    IN
    {<<Col(Names.status, {Txt(Approved), Txt(Pending), NA}),
       Col(Names.service, {Txt(Salsa), NA})>>,
     <<Col(Names.role, {Txt(Leader), NA}),
       Col(Names.country, {Txt(Greece), Txt(Cyprus), NA})>>,
     <<Col(Names.start_date, {Txt(Day1Evening), Txt(Day2Morning),
                           Txt(Day3Morning), Txt(Unscheduled)}),
       Col(Names.created_date, {Txt(Day1Morning)})>>,
     <<Col(Names.price, {Txt(Euro10), Txt(Euro4550), Txt(Plain30),
                       Txt(NotAvailable)})>>,
     <<Col(Names.payment, {Txt(Euro10), Txt(Euro20)})>>,
     <<Col(Names.price, {Txt(Euro10)}),
       Col(Names.price \o NumericSuffix, {Num(500), Num(700)})>>,
     <<Col(Names.duration, {Num(6000), Num(9000), NA})>>,
     <<Col(Names.email, {Txt(Ann), Txt(Bob), NA}),
       Col(Names.price, {Txt(Euro10), Txt(NotAvailable)})>>}

CsvFiles == UNION {read_csv(schema, MaxFileRows) : schema \in Schemas}

\* -------------------------------------------------------------- process_data
\* pd.to_datetime(errors='coerce') on one text of January 2024
parse_datetime(t) ==
    IF /\ Len(t) = 16
       /\ SubSeq(t, 1, 8) = DatePrefix
       /\ IsDigit(t[9]) /\ IsDigit(t[10])
       /\ t[11] = " "
       /\ IsDigit(t[12]) /\ IsDigit(t[13])
       /\ SubSeq(t, 14, 16) = DateSuffix
       /\ DigitsValue(SubSeq(t, 9, 10)) \in 1..31
       /\ DigitsValue(SubSeq(t, 12, 13)) \in 0..23
    THEN Ts((DigitsValue(SubSeq(t, 9, 10)) - 1) * 24
            + DigitsValue(SubSeq(t, 12, 13)))
    ELSE NA

\* pd.to_datetime(errors='coerce') on one cell; a number is a count of
\* nanoseconds since 1970, before the month the timestamps are counted from
to_datetime(c) ==
    IF c.k = "txt" THEN parse_datetime(c.s)
    ELSE IF c.k = "num" THEN Ts(0)
    ELSE c

\* Timestamp.date(), as the day of the month counted from 0
DateOf(c) == c.n \div 24

\* the two fraction digits of a run of digits after the point
Hundredths(s) ==
    IF s = <<>> THEN 0
    ELSE IF Len(s) = 1 THEN DigitValue(s[1]) * 10
    ELSE DigitsValue(SubSeq(s, 1, 2))

\* the group of €?(\d+\.?\d*) at the first digit of t, as a float
extract_from_whole(t, i) ==
    Num(DigitsValue(SubSeq(t, i, RunEnd(t, i))) * 100)
extract_from(t, i) ==
    LET j == RunEnd(t, i)
        whole == DigitsValue(SubSeq(t, i, j))
        frac == IF j < Len(t) /\ t[j + 1] = "."
                THEN SubSeq(t, j + 2, RunEnd(t, j + 2))
                ELSE <<>>
    IN  Num(whole * 100 + Hundredths(frac))

\* .str.extract(r'€?(\d+\.?\d*)', expand=False).astype(float) on one cell
extract_numeric(c) ==
    IF c.k = "txt" /\ \E i \in DOMAIN c.s : IsDigit(c.s[i])
    THEN extract_from(c.s, Least({i \in DOMAIN c.s : IsDigit(c.s[i])}))
    ELSE NA

\* minutes to hours
to_hours(c) == IF c.k = "num" THEN Num(c.n \div 60) ELSE NA

\* the names in df.columns that contain one of the patterns, in file order
ColumnsLike(f, pats) ==
    Pick(f.columns,
         {i \in DOMAIN f.columns :
             \E p \in pats : Contains(p, Lower(f.columns[i]))}, 1)

RECURSIVE process_dates(_, _, _)
process_dates(f, cols, i) ==
    IF i > Len(cols) THEN f
    ELSE process_dates(
             SetColumn(f, cols[i], "datetime64",
                       [r \in DOMAIN f.rows |->
                           to_datetime(Cells(f, cols[i])[r])]),
             cols, i + 1)

RECURSIVE process_payments(_, _, _)
process_payments(f, cols, i) ==
    IF i > Len(cols) THEN f
    ELSE process_payments(
             IF DType(f, cols[i]) = "object"
             THEN SetColumn(f, cols[i] \o NumericSuffix, "float64",
                            [r \in DOMAIN f.rows |->
                                extract_numeric(Cells(f, cols[i])[r])])
             ELSE f,
             cols, i + 1)

RECURSIVE process_durations(_, _, _)
process_durations(f, cols, i) ==
    IF i > Len(cols) THEN f
    ELSE process_durations(
             IF DType(f, cols[i]) \in {"int64", "float64"}
             THEN SetColumn(f, cols[i] \o HoursSuffix, "float64",
                            [r \in DOMAIN f.rows |->
                                to_hours(Cells(f, cols[i])[r])])
             ELSE f,
             cols, i + 1)

process_data(f) ==
    LET dated == process_dates(
                     f, ColumnsLike(f, {Patterns.date, Patterns.created}), 1)
        paid == process_payments(
                    dated,
                    ColumnsLike(dated, {Patterns.payment, Patterns.price}), 1)
    IN  process_durations(paid, ColumnsLike(paid, {Patterns.duration}), 1)

\* -------------------------------------------------------------------- filters
\* the answer of a sidebar widget
Multi(S) == [kind |-> "multi", set |-> S, lo |-> 0, hi |-> 0]
Range(a, b) == [kind |-> "range", set |-> {}, lo |-> a, hi |-> b]
Partial(a) == [kind |-> "partial", set |-> {}, lo |-> a, hi |-> a]

\* df[df[name].isin(S)]
IsIn(f, name, S) == Rows(f, {r \in DOMAIN f.rows : Cells(f, name)[r] \in S})

Numbers(f, name) == {c.n : c \in Values(f, name)}
Greatest(S) == CHOOSE x \in S : \A y \in S : y <= x

\* create_date_filter; input is what st.sidebar.date_input returned
create_date_filter_instant(f, date_col, input) ==
    IF Values(f, date_col) = {} THEN f
    ELSE LET min_date == Least({DateOf(c) : c \in Values(f, date_col)})
             max_date == Greatest({DateOf(c) : c \in Values(f, date_col)})
             kept == {c \in Values(f, date_col) :
                         c.n >= input.lo * 24 /\ c.n <= input.hi * 24}
         IN  IF /\ input.kind = "range"
                /\ (input.lo # min_date \/ input.hi # max_date)
             THEN IsIn(f, date_col, kept)
             ELSE f
create_date_filter(f, date_col, input) ==
    IF Values(f, date_col) = {} THEN f
    ELSE LET min_date == Least({DateOf(c) : c \in Values(f, date_col)})
             max_date == Greatest({DateOf(c) : c \in Values(f, date_col)})
             kept == {c \in Values(f, date_col) :
                         DateOf(c) >= input.lo /\ DateOf(c) <= input.hi}
         IN  IF /\ input.kind = "range"
                /\ (input.lo # min_date \/ input.hi # max_date)
             THEN IsIn(f, date_col, kept)
             ELSE f

all_known_statuses ==
    {Txt(<<"A", "p", "p", "r", "o", "v", "e", "d">>),
     Txt(<<"P", "e", "n", "d", "i", "n", "g">>),
     Txt(<<"C", "a", "n", "c", "e", "l", "l", "e", "d">>),
     Txt(<<"R", "e", "j", "e", "c", "t", "e", "d">>),
     Txt(<<"D", "o", "n", "e">>),
     Txt(<<"C", "o", "n", "f", "i", "r", "m", "e", "d">>),
     Txt(<<"N", "o", "-", "s", "h", "o", "w">>),
     Txt(<<"R", "e", "s", "c", "h", "e", "d", "u", "l", "e", "d">>),
     Txt(<<"C", "o", "m", "p", "l", "e", "t", "e", "d">>),
     Txt(<<"I", "n", " ", "P", "r", "o", "g", "r", "e", "s", "s">>),
     Txt(<<"W", "a", "i", "t", "i", "n", "g">>),
     Txt(<<"D", "r", "a", "f", "t">>),
     Txt(<<"E", "x", "p", "i", "r", "e", "d">>)}

\* create_status_filter; input is what st.sidebar.multiselect returned
create_status_filter_lenient(f, status_col, input) ==
    LET valid_selected == input.set \cap Values(f, status_col)
    IN  IF Values(f, status_col) = {} \/ valid_selected = {} THEN f
        ELSE IsIn(f, status_col, valid_selected)
create_status_filter(f, status_col, input) ==
    LET actual_statuses == Values(f, status_col)
        valid_selected == input.set \cap actual_statuses
    IN  IF actual_statuses = {} THEN f
        ELSE IF input.set # {} THEN IsIn(f, status_col, valid_selected)
        ELSE f

\* create_service_filter; the options are the services of the data
create_service_filter(f, service_col, input) ==
    IF Values(f, service_col) = {} THEN f
    ELSE IF input.set # {} THEN IsIn(f, service_col, input.set)
    ELSE f

\* create_role_filter; the options are the roles of the data, the order in
\* which the widget lists them has no part in the result
create_role_filter(f, role_col, input) ==
    IF Values(f, role_col) = {} THEN f
    ELSE IF input.set # {} THEN IsIn(f, role_col, input.set)
    ELSE f

\* create_multiselect_filter
create_multiselect_filter_always(f, column, input) ==
    IF Values(f, column) = {} THEN f ELSE IsIn(f, column, input.set)
create_multiselect_filter(f, column, input) ==
    IF Values(f, column) = {} THEN f
    ELSE IF input.set # {} THEN IsIn(f, column, input.set)
    ELSE f

\* create_price_filter; input is what st.sidebar.slider returned
create_price_filter(f, price_col, input) ==
    LET numeric_col == price_col \o NumericSuffix
        kept == {c \in Values(f, numeric_col) :
                    c.n >= input.lo /\ c.n <= input.hi}
    IN  IF ~HasColumn(f, numeric_col) THEN f
        ELSE IF Values(f, numeric_col) = {} THEN f
        ELSE IF \/ input.lo # Least(Numbers(f, numeric_col))
                \/ input.hi # Greatest(Numbers(f, numeric_col))
             THEN IsIn(f, numeric_col, kept)
             ELSE f

\* the statuses a user is taken to pick from the options of the status widget
StatusPicks == {Txt(Approved), Txt(Pending), Txt(Expired)}

\* what st.sidebar.date_input can return for the given column
DateInputs(f, date_col) ==
    LET days == {DateOf(c) : c \in Values(f, date_col)}
        span == Least(days)..Greatest(days)
    IN  {Range(p[1], p[2]) : p \in {q \in span \X span : q[1] <= q[2]}}
        \cup {Partial(a) : a \in span}

\* what st.sidebar.slider can return for the given derived column
SliderInputs(f, numeric_col) ==
    LET lo == Least(Numbers(f, numeric_col))
        hi == Greatest(Numbers(f, numeric_col))
        stops == {lo + 1000 * k : k \in 0..((hi - lo) \div 1000)} \cup {hi}
    IN  {Range(p[1], p[2]) : p \in {q \in stops \X stops : q[1] <= q[2]}}

\* ----------------------------------------------------------- show_key_metrics
\* Series.sum(): missing cells are skipped
RECURSIVE SumFrom(_, _)
SumFrom(cells, i) ==
    IF i > Len(cells) THEN 0
    ELSE (IF cells[i].k = "num" THEN cells[i].n ELSE 0) + SumFrom(cells, i + 1)

\* Series.count(): the cells that are not missing
Count(cells) == Cardinality({i \in DOMAIN cells : cells[i] # NA})

\* df[numeric_col].sum() in euros, or "N/A"
total_revenue(f) ==
    LET revenue_col == get_best_column(f, <<Patterns.payment, Patterns.price>>)
    IN  IF revenue_col # NoColumn /\ HasColumn(f, revenue_col \o NumericSuffix)
        THEN Metric("num", SumFrom(Cells(f, revenue_col \o NumericSuffix), 1),
                    100)
        ELSE Metric("na", 0, 1)

\* df[numeric_col].mean() in euros, NaN when every cell is missing, or "N/A"
average_payment(f) ==
    LET revenue_col == get_best_column(f, <<Patterns.payment, Patterns.price>>)
        cells == Cells(f, revenue_col \o NumericSuffix)
    IN  IF revenue_col # NoColumn /\ HasColumn(f, revenue_col \o NumericSuffix)
        THEN (IF Count(cells) = 0 THEN Metric("nan", 0, 1)
              ELSE Metric("num", SumFrom(cells, 1), 100 * Count(cells)))
        ELSE Metric("na", 0, 1)

\* df[email_col].nunique(), or len(df)
unique_customers_rows(f) == Metric("num", Len(f.rows), 1)
unique_customers(f) ==
    LET email_col == get_best_column(f, <<Patterns.email>>)
    IN  IF email_col # NoColumn
        THEN Metric("num", Cardinality(Values(f, email_col)), 1)
        ELSE Metric("num", Len(f.rows), 1)

show_key_metrics(f) ==
    [total |-> Metric("num", Len(f.rows), 1),
     revenue |-> total_revenue(f),
     average |-> average_payment(f),
     customers |-> unique_customers(f)]

\* show_filter_summary
Showing(kind, n, m) == [kind |-> kind, n |-> n, m |-> m]
show_filter_summary(original, f) ==
    IF Len(f.rows) < Len(original.rows)
    THEN Showing("n_of_m", Len(f.rows), Len(original.rows))
    ELSE Showing("all", Len(f.rows), Len(original.rows))

\* ---------------------------------------------------------------- load_config
ConfigFiles == {"absent", "complete", "incomplete", "invalid"}

\* "ok" when a complete configuration is returned, "exit" for sys.exit(1)
load_config_fallback(cfgFile, envComplete) ==
    IF cfgFile \in {"complete"} \/ (cfgFile # "invalid" /\ envComplete)
    THEN "ok" ELSE "exit"
load_config(cfgFile, envComplete) ==
    IF cfgFile # "absent"
    THEN (IF cfgFile = "complete" THEN "ok" ELSE "exit")
    ELSE (IF envComplete THEN "ok" ELSE "exit")

\* ---------------------------------------------------------------------- login
LoginResponses ==
    {[transport |-> FALSE, success |-> s, error |-> e] : s, e \in BOOLEAN}
    \cup {[transport |-> TRUE, success |-> FALSE, error |-> FALSE]}

login_error_first(resp) ==
    IF resp.transport THEN FALSE
    ELSE IF resp.error THEN FALSE
    ELSE TRUE
login(resp) ==
    IF resp.transport THEN FALSE
    ELSE IF resp.success THEN TRUE
    ELSE IF resp.error THEN FALSE
    ELSE TRUE

\* the tokens login looks for in resp.text.lower()
Indicators ==
    [success |-> {<<"d", "a", "s", "h", "b", "o", "a", "r", "d">>,
                  <<"w", "p", "-", "a", "d", "m", "i", "n">>,
                  <<"w", "e", "l", "c", "o", "m", "e">>,
                  <<"h", "o", "w", "d", "y">>},
     error |-> {<<"e", "r", "r", "o", "r">>,
                <<"i", "n", "c", "o", "r", "r", "e", "c", "t">>}]

\* what login reads off the answer of the POST: whether the request raised,
\* and which kind of token the lower-cased body holds
Classify(page) ==
    [transport |-> page.transport,
     success |-> \E t \in Indicators.success : Contains(t, Lower(page.text)),
     error |-> \E t \in Indicators.error : Contains(t, Lower(page.text))]

RECURSIVE Join(_)
Join(ws) == IF ws = <<>> THEN <<>> ELSE Head(ws) \o <<" ">> \o Join(Tail(ws))

\* answers of wp-login.php: a request that raised (connection error, timeout,
\* HTTP error status), or a body of at most MaxWords words
LoginPages ==
    LET Words == {<<"H", "o", "w", "d", "y">>,
                  <<"D", "a", "s", "h", "b", "o", "a", "r", "d">>,
                  <<"E", "R", "R", "O", "R">>,
                  <<"i", "n", "c", "o", "r", "r", "e", "c", "t">>,
                  <<"w", "a", "i", "t">>}
    IN  {[transport |-> TRUE, text |-> <<>>]}
        \cup {[transport |-> FALSE, text |-> Join(ws)] :
                  ws \in SeqUpTo(Words, MaxWords)}

\* ------------------------------------------------------------- get_csrf_token
TokenPages == {"error", "redirect", "notoken", "token"}
NoToken == "none"
Token == "tok"

get_csrf_token(page) == IF page = "token" THEN Token ELSE NoToken

\* get_export_fields plus the optional csrf_token field
Payload_second_bare(date, tok) ==
    [date |-> date, csrf |-> IF date = "null" THEN NoToken ELSE tok]
Payload(date, tok) == [date |-> date, csrf |-> tok]

\* ----------------------------------------------------------------------- main
exit_code_zero(success) == "0"

\* sys.exit(0 if success else 1)
exit_code(success) == IF success THEN "0" ELSE "1"

\* ------------------------------------------------------------- restore_backup
restore_backup_keep(csv, backup) ==
    IF backup.kind # "absent"
    THEN [csv |-> backup, backup |-> backup, result |-> "restored"]
    ELSE [csv |-> csv, backup |-> backup, result |-> "nobackup"]

restore_backup_nocopy(csv, backup) ==
    IF backup.kind # "absent"
    THEN [csv |-> csv, backup |-> Absent, result |-> "restored"]
    ELSE [csv |-> csv, backup |-> backup, result |-> "nobackup"]

\* copy the backup over the destination and remove it, when there is one
restore_backup(csv, backup) ==
    IF backup.kind # "absent"
    THEN [csv |-> backup, backup |-> Absent, result |-> "restored"]
    ELSE [csv |-> csv, backup |-> backup, result |-> "nobackup"]

\* --------------------------------------------------------------- refresh_data
backup_copy_skip(csv, backup) == backup

\* shutil.copy2(csv_file, backup_file) when the destination exists
backup_copy(csv, backup) == IF csv.kind # "absent" THEN csv ELSE backup

\* the new file exists, parses and has at least one row
validate_new(csv) == csv.kind # "absent" /\ Parses(csv) /\ Len(csv.rows) > 0

\* -------------------------------------------------------------------- save_csv
write_result_truncated(data) == PartialBody

\* the file after f.write(csv_data) and the close of the with block
write_result(data) == data

\* what an interrupted or failed write leaves behind
TornWrites == {EmptyBody, PartialBody}

\* the configuration file and whether WP_BASE_URL, WP_USERNAME and
\* WP_PASSWORD are all set
Configs == [file : ConfigFiles, env : BOOLEAN]
NoConfig == [file |-> "complete", env |-> FALSE]

\* ---------------------------------------------------------------------- state
VARIABLES
    pc,            \* position of the collector process
    rpc,           \* position of refresh_data: "idle", "waiting", "done"
    csvFile,       \* content of Appointments.csv
    backupFile,    \* content of Appointments_backup.csv
    startFile,     \* content of Appointments.csv when the run was started
    csrf_token,    \* self.csrf_token
    issued,        \* payloads of the export requests posted so far
    resp1,         \* resp_1.content, Failed when request 1 raised
    resp2,         \* resp_2.content, Failed when request 2 raised
    csv_data,      \* value returned by export_appointments
    succeeded,     \* steps of run() that returned a truthy value
    exitCode,      \* argument of sys.exit, "none" while running or killed
    failedAt,      \* position at which the run stopped without success
    cause,         \* why it stopped there
    refreshResult, \* outcome of refresh_data
    observed,      \* what the last load_data found at Appointments.csv
    config,        \* what scraper_config.json and the environment hold
    ppc,           \* position of the dashboard's render
    original_df,   \* self.original_df
    df,            \* self.df
    before,        \* self.df as the last filter found it
    selected,      \* what the user entered in the last filter's widget
    summary,       \* what show_filter_summary displayed
    patterns,      \* argument of get_best_column
    best,          \* value returned by get_best_column
    metrics,       \* what show_key_metrics displayed
    login_page,    \* what the remote system answered to the login request
    session,       \* st.session_state of the dashboard
    users,         \* the configured dashboard credentials
    submitted      \* the login form: last submission and its message

collector == <<pc, rpc, csvFile, backupFile, startFile, csrf_token, issued,
               resp1, resp2, csv_data, succeeded, exitCode, failedAt, cause,
               refreshResult, observed>>

presenter == <<ppc, original_df, df, before, selected, summary, patterns,
               best, metrics>>

access == <<session, users, submitted>>

vars == <<collector, config, login_page, presenter, access>>

files == <<csvFile, backupFile>>
export == <<csrf_token, issued, resp1, resp2, csv_data>>

\* no render is under way
PresenterOff ==
    /\ ppc = "off"
    /\ original_df = NoFrame
    /\ df = NoFrame
    /\ before = NoFrame
    /\ selected = NoInput
    /\ summary = NoSummary
    /\ patterns = <<>>
    /\ best = NoColumn
    /\ metrics = NoMetrics
    /\ session = SignedOut
    /\ users = NoUsers
    /\ submitted = NoSubmission

Running == {"config", "login", "token", "export1", "export2", "exported",
            "save_remove", "save_open", "save_write"}

Init ==
    /\ pc = "idle"
    /\ rpc = "idle"
    /\ csvFile \in InitialFiles
    /\ backupFile = Absent
    /\ startFile = Absent
    /\ csrf_token = NoToken
    /\ issued = <<>>
    /\ resp1 = None
    /\ resp2 = None
    /\ csv_data = None
    /\ succeeded = {}
    /\ exitCode = "none"
    /\ failedAt = "none"
    /\ cause = "none"
    /\ refreshResult = "none"
    /\ observed = None
    /\ config \in Configs
    /\ login_page = NoPage
    /\ PresenterOff

\* the process ends through sys.exit(exit_code(success))
Exit(success, why) ==
    /\ pc' = "exited"
    /\ exitCode' = exit_code(success)
    /\ failedAt' = IF success THEN "none" ELSE pc
    /\ cause' = IF success THEN "none" ELSE why

\* python scraper.py from a shell
Start ==
    /\ pc = "idle" /\ rpc = "idle"
    /\ pc' = "config"
    /\ startFile' = csvFile
    /\ UNCHANGED <<rpc, files, export, succeeded, exitCode, failedAt, cause,
                   refreshResult, observed>>
    /\ UNCHANGED <<config, login_page, presenter, access>>

\* refresh_data up to subprocess.run
RefreshStart ==
    /\ pc = "idle" /\ rpc = "idle"
    /\ backupFile' = backup_copy(csvFile, backupFile)
    /\ rpc' = "waiting"
    /\ pc' = "config"
    /\ startFile' = csvFile
    /\ UNCHANGED <<csvFile, export, succeeded, exitCode, failedAt, cause,
                   refreshResult, observed>>
    /\ UNCHANGED <<config, login_page, presenter, access>>

\* main: load_config
LoadConfig ==
    /\ pc = "config"
    /\ IF load_config(config.file, config.env) = "ok"
       THEN /\ pc' = "login"
            /\ UNCHANGED <<exitCode, failedAt, cause>>
       ELSE Exit(FALSE, "config")
    /\ UNCHANGED <<rpc, files, startFile, export, succeeded, refreshResult,
                   observed>>
    /\ UNCHANGED <<config, login_page, presenter, access>>

Login_continue ==
    /\ pc = "login"
    /\ \E resp \in LoginResponses :
          /\ pc' = "token"
          /\ succeeded' = IF login(resp) THEN succeeded \cup {"login"}
                          ELSE succeeded
          /\ UNCHANGED <<exitCode, failedAt, cause>>
    /\ UNCHANGED <<rpc, files, startFile, export, refreshResult, observed>>
    /\ UNCHANGED <<config, login_page, presenter, access>>

\* run step 1
Login ==
    /\ pc = "login"
    /\ \E resp \in LoginResponses :
          IF login(resp)
          THEN /\ pc' = "token"
               /\ succeeded' = succeeded \cup {"login"}
               /\ UNCHANGED <<exitCode, failedAt, cause>>
          ELSE /\ Exit(FALSE, "returned_false")
               /\ UNCHANGED succeeded
    /\ UNCHANGED <<rpc, files, startFile, export, refreshResult, observed>>
    /\ UNCHANGED <<config, login_page, presenter, access>>

\* run step 2
GetCsrfToken ==
    /\ pc = "token"
    /\ \E page \in TokenPages : csrf_token' = get_csrf_token(page)
    /\ pc' = "export1"
    /\ UNCHANGED <<rpc, files, startFile, issued, resp1, resp2, csv_data,
                   succeeded, exitCode, failedAt, cause, refreshResult,
                   observed>>
    /\ UNCHANGED <<config, login_page, presenter, access>>

ExportRequest1_continue ==
    /\ pc = "export1"
    /\ issued' = Append(issued, Payload("any", csrf_token))
    /\ \E r \in RequestOutcomes : resp1' = r
    /\ pc' = "export2"
    /\ UNCHANGED csv_data
    /\ UNCHANGED <<rpc, files, startFile, csrf_token, resp2, succeeded,
                   exitCode, failedAt, cause, refreshResult, observed>>
    /\ UNCHANGED <<config, login_page, presenter, access>>

\* export_appointments, first request: a failure returns None at once
ExportRequest1 ==
    /\ pc = "export1"
    /\ issued' = Append(issued, Payload("any", csrf_token))
    /\ \E r \in RequestOutcomes :
          /\ resp1' = r
          /\ IF r = Failed
             THEN pc' = "exported" /\ csv_data' = None
             ELSE pc' = "export2" /\ UNCHANGED csv_data
    /\ UNCHANGED <<rpc, files, startFile, csrf_token, resp2, succeeded,
                   exitCode, failedAt, cause, refreshResult, observed>>
    /\ UNCHANGED <<config, login_page, presenter, access>>

\* export_appointments, second request and merge, up to its return
ExportRequest2 ==
    /\ pc = "export2"
    /\ issued' = Append(issued, Payload("null", csrf_token))
    /\ \E r \in RequestOutcomes :
          /\ resp2' = r
          /\ csv_data' = IF r = Failed
                         THEN second_failure(resp1)
                         ELSE merge_fallback(resp1,
                                             merge_csv_responses(resp1, r))
    /\ pc' = "exported"
    /\ UNCHANGED <<rpc, files, startFile, csrf_token, resp1, succeeded,
                   exitCode, failedAt, cause, refreshResult, observed>>
    /\ UNCHANGED <<config, login_page, presenter, access>>

\* run step 3, the test of csv_data; resp_2 is dead once the export returned
RunAfterExport ==
    /\ pc = "exported"
    /\ IF Truthy(csv_data)
       THEN /\ pc' = "save_remove"
            /\ succeeded' = succeeded \cup {"export"}
            /\ resp2' = None
            /\ UNCHANGED <<exitCode, failedAt, cause>>
       ELSE /\ Exit(FALSE, "returned_false")
            /\ UNCHANGED <<succeeded, resp2>>
    /\ UNCHANGED <<rpc, files, startFile, csrf_token, issued, resp1, csv_data,
                   refreshResult, observed>>
    /\ UNCHANGED <<config, login_page, presenter, access>>

\* save_csv: os.path.exists / os.remove
SaveRemove ==
    /\ pc = "save_remove"
    /\ \/ /\ csvFile' = Absent
          /\ pc' = "save_open"
          /\ UNCHANGED <<exitCode, failedAt, cause>>
       \/ /\ csvFile.kind # "absent"
          /\ Exit(FALSE, "returned_false")
          /\ UNCHANGED csvFile
    /\ UNCHANGED <<rpc, backupFile, startFile, export, succeeded,
                   refreshResult, observed>>
    /\ UNCHANGED <<config, login_page, presenter, access>>

\* save_csv: open(filename, 'wb')
SaveOpen ==
    /\ pc = "save_open"
    /\ \/ /\ csvFile' = EmptyBody
          /\ pc' = "save_write"
          /\ UNCHANGED <<exitCode, failedAt, cause>>
       \/ /\ Exit(FALSE, "returned_false")
          /\ UNCHANGED csvFile
    /\ UNCHANGED <<rpc, backupFile, startFile, export, succeeded,
                   refreshResult, observed>>
    /\ UNCHANGED <<config, login_page, presenter, access>>

\* save_csv: f.write, close, preview, return; then run and main return
SaveWrite ==
    /\ pc = "save_write"
    /\ \/ /\ csvFile' = write_result(csv_data)
          /\ succeeded' = succeeded \cup {"save"}
          /\ Exit(TRUE, "none")
       \/ /\ csvFile' \in TornWrites
          /\ Exit(FALSE, "returned_false")
          /\ UNCHANGED succeeded
    /\ UNCHANGED <<rpc, backupFile, startFile, export, refreshResult,
                   observed>>
    /\ UNCHANGED <<config, login_page, presenter, access>>

\* the file a process leaves when it is stopped at position p
StoppedFile(p) == IF p = "save_write" THEN {csvFile} \cup TornWrites ELSE {csvFile}

\* main: except KeyboardInterrupt
KeyboardInterrupt ==
    /\ pc \in Running
    /\ csvFile' \in StoppedFile(pc)
    /\ Exit(FALSE, "interrupt")
    /\ UNCHANGED <<rpc, backupFile, startFile, export, succeeded,
                   refreshResult, observed>>
    /\ UNCHANGED <<config, login_page, presenter, access>>

\* main: except Exception, for what the steps of run do not catch themselves
UnexpectedException ==
    /\ pc \in {"login", "token", "export1", "export2"}
    /\ Exit(FALSE, "exception")
    /\ UNCHANGED <<rpc, files, startFile, export, succeeded, refreshResult,
                   observed>>
    /\ UNCHANGED <<config, login_page, presenter, access>>

\* refresh_data: subprocess.TimeoutExpired, the child is killed
RefreshTimeout ==
    /\ rpc = "waiting"
    /\ pc \in Running
    /\ pc' = "killed"
    /\ failedAt' = pc
    /\ cause' = "timeout"
    /\ \E torn \in StoppedFile(pc) :
          LET r == restore_backup(torn, backupFile) IN
             /\ csvFile' = r.csv
             /\ backupFile' = r.backup
             /\ refreshResult' = r.result
    /\ rpc' = "done"
    /\ UNCHANGED <<startFile, export, succeeded, exitCode, observed>>
    /\ UNCHANGED <<config, login_page, presenter, access>>

\* refresh_data after subprocess.run returned
RefreshAfterExit ==
    /\ rpc = "waiting"
    /\ pc = "exited"
    /\ IF exitCode = "0" /\ validate_new(csvFile)
       THEN /\ backupFile' = Absent
            /\ refreshResult' = "success"
            /\ observed' = csvFile
            /\ UNCHANGED csvFile
       ELSE LET r == restore_backup(csvFile, backupFile) IN
               /\ csvFile' = r.csv
               /\ backupFile' = r.backup
               /\ refreshResult' = r.result
               /\ UNCHANGED observed
    /\ rpc' = "done"
    /\ UNCHANGED <<pc, startFile, export, succeeded, exitCode, failedAt,
                   cause>>
    /\ UNCHANGED <<config, login_page, presenter, access>>

\* load_data of a render that runs while the collector does
LoadData ==
    /\ observed' = csvFile
    /\ observed' # observed
    /\ UNCHANGED <<pc, rpc, files, startFile, export, succeeded, exitCode,
                   failedAt, cause, refreshResult>>
    /\ UNCHANGED <<config, login_page, presenter, access>>

Next ==
    \/ Start
    \/ RefreshStart
    \/ LoadConfig
    \/ Login
    \/ GetCsrfToken
    \/ ExportRequest1
    \/ ExportRequest2
    \/ RunAfterExport
    \/ SaveRemove
    \/ SaveOpen
    \/ SaveWrite
    \/ KeyboardInterrupt
    \/ UnexpectedException
    \/ RefreshTimeout
    \/ RefreshAfterExit
    \/ LoadData

Spec == Init /\ [][Next]_vars

\* merge_csv_responses on its own: any two byte strings, then the call
InitMerge ==
    /\ pc = "merge"
    /\ rpc = "idle"
    /\ csvFile = Absent
    /\ backupFile = Absent
    /\ startFile = Absent
    /\ csrf_token = NoToken
    /\ issued = <<>>
    /\ resp1 \in MergeInputs
    /\ resp2 \in MergeInputs
    /\ csv_data = None
    /\ succeeded = {}
    /\ exitCode = "none"
    /\ failedAt = "none"
    /\ cause = "none"
    /\ refreshResult = "none"
    /\ observed = None
    /\ config = NoConfig
    /\ login_page = NoPage
    /\ PresenterOff

MergeCall ==
    /\ pc = "merge"
    /\ csv_data' = merge_csv_responses(resp1, resp2)
    /\ pc' = "merged"
    /\ UNCHANGED <<rpc, files, startFile, csrf_token, issued, resp1, resp2,
                   succeeded, exitCode, failedAt, cause, refreshResult,
                   observed>>
    /\ UNCHANGED <<config, login_page, presenter, access>>

NextMerge == MergeCall

SpecMerge == InitMerge /\ [][NextMerge]_vars

\* ----------------------------------------------------- login, on its own
InitLogin ==
    /\ pc = "login"
    /\ rpc = "idle"
    /\ csvFile = Absent
    /\ backupFile = Absent
    /\ startFile = Absent
    /\ csrf_token = NoToken
    /\ issued = <<>>
    /\ resp1 = None
    /\ resp2 = None
    /\ csv_data = None
    /\ succeeded = {}
    /\ exitCode = "none"
    /\ failedAt = "none"
    /\ cause = "none"
    /\ refreshResult = "none"
    /\ observed = None
    /\ config = NoConfig
    /\ login_page \in LoginPages
    /\ PresenterOff

\* run step 1, on the answer the server gave
LoginCall ==
    /\ pc = "login"
    /\ IF login(Classify(login_page))
       THEN /\ pc' = "token"
            /\ succeeded' = succeeded \cup {"login"}
            /\ UNCHANGED <<exitCode, failedAt, cause>>
       ELSE /\ Exit(FALSE, "returned_false")
            /\ UNCHANGED succeeded
    /\ UNCHANGED <<rpc, files, startFile, export, refreshResult, observed>>
    /\ UNCHANGED <<config, login_page, presenter, access>>

NextLogin == LoginCall

SpecLogin == InitLogin /\ [][NextLogin]_vars

\* the collector is not running
CollectorOff ==
    /\ pc = "idle"
    /\ rpc = "idle"
    /\ csvFile = Absent
    /\ backupFile = Absent
    /\ startFile = Absent
    /\ csrf_token = NoToken
    /\ issued = <<>>
    /\ resp1 = None
    /\ resp2 = None
    /\ csv_data = None
    /\ succeeded = {}
    /\ exitCode = "none"
    /\ failedAt = "none"
    /\ cause = "none"
    /\ refreshResult = "none"
    /\ observed = None

\* get_best_column on its own: any column list and pattern list, then the call
InitColumns ==
    /\ CollectorOff
    /\ config = NoConfig
    /\ ppc = "ask"
    /\ original_df = NoFrame
    /\ df \in ColumnFrames
    /\ before = NoFrame
    /\ selected = NoInput
    /\ summary = NoSummary
    /\ patterns \in PatternLists
    /\ best = NoColumn
    /\ metrics = NoMetrics
    /\ login_page = NoPage
    /\ session = SignedOut
    /\ users = NoUsers
    /\ submitted = NoSubmission

GetBestColumn ==
    /\ ppc = "ask"
    /\ best' = get_best_column(df, patterns)
    /\ ppc' = "answered"
    /\ UNCHANGED <<original_df, df, before, selected, summary, patterns>>
    /\ UNCHANGED <<collector, config, login_page, metrics, access>>

NextColumns == GetBestColumn

SpecColumns == InitColumns /\ [][NextColumns]_vars

\* one script run of the dashboard by a signed-in user
InitRender ==
    /\ CollectorOff
    /\ config = NoConfig
    /\ ppc = "start"
    /\ original_df = NoFrame
    /\ df = NoFrame
    /\ before = NoFrame
    /\ selected = NoInput
    /\ summary = NoSummary
    /\ patterns = <<>>
    /\ best = NoColumn
    /\ metrics = NoMetrics
    /\ login_page = NoPage
    /\ users = Users("admin", "secret")
    /\ session = SignedIn("admin")
    /\ submitted = NoSubmission

\* run: load_data, which ends with process_data
RunLoadData_shared ==
    /\ ppc = "start"
    /\ \E f \in CsvFiles :
          /\ original_df' = process_data(f)
          /\ df' = process_data(f)
    /\ ppc' = "summary"
    /\ UNCHANGED <<before, selected, summary, patterns, best>>
    /\ UNCHANGED <<collector, config, login_page, metrics, access>>

\* load_data: read_csv, a copy as the working set, process_data on the copy
RunLoadData ==
    /\ ppc = "start"
    /\ \E f \in CsvFiles :
          /\ original_df' = f
          /\ df' = process_data(f)
    /\ ppc' = "summary"
    /\ UNCHANGED <<before, selected, summary, patterns, best>>
    /\ UNCHANGED <<collector, config, login_page, metrics, access>>

\* create_sidebar_filters: the summary comes first
ShowFilterSummary ==
    /\ ppc = "summary"
    /\ summary' = show_filter_summary(original_df, df)
    /\ ppc' = "date"
    /\ UNCHANGED <<original_df, df, before, selected, patterns, best>>
    /\ UNCHANGED <<collector, config, login_page, metrics, access>>

\* one filter of create_sidebar_filters starts with the column lookup
Resolve(pats) ==
    /\ patterns' = pats
    /\ best' = get_best_column(df, pats)
    /\ before' = df

\* the column was not found, or the filter returned before its widget
NotShown ==
    /\ selected' = NoInput
    /\ df' = df

DateFilter ==
    /\ ppc = "date"
    /\ Resolve(<<Patterns.appointment_date, Patterns.date, Patterns.start>>)
    /\ IF best' # NoColumn /\ Values(df, best') # {}
       THEN \E input \in DateInputs(df, best') :
               /\ selected' = input
               /\ df' = create_date_filter(df, best', input)
       ELSE NotShown
    /\ ppc' = "status"
    /\ UNCHANGED <<original_df, summary>>
    /\ UNCHANGED <<collector, config, login_page, metrics, access>>

StatusFilter ==
    /\ ppc = "status"
    /\ Resolve(<<Patterns.status>>)
    /\ IF best' # NoColumn /\ Values(df, best') # {}
       THEN \E S \in SUBSET ((Values(df, best') \cup all_known_statuses)
                                \cap StatusPicks) :
               /\ selected' = Multi(S)
               /\ df' = create_status_filter(df, best', Multi(S))
       ELSE NotShown
    /\ ppc' = "service"
    /\ UNCHANGED <<original_df, summary>>
    /\ UNCHANGED <<collector, config, login_page, metrics, access>>

ServiceFilter ==
    /\ ppc = "service"
    /\ Resolve(<<Patterns.service>>)
    /\ IF best' # NoColumn /\ Values(df, best') # {}
       THEN \E S \in SUBSET Values(df, best') :
               /\ selected' = Multi(S)
               /\ df' = create_service_filter(df, best', Multi(S))
       ELSE NotShown
    /\ ppc' = "role"
    /\ UNCHANGED <<original_df, summary>>
    /\ UNCHANGED <<collector, config, login_page, metrics, access>>

RoleFilter ==
    /\ ppc = "role"
    /\ Resolve(<<Patterns.role>>)
    /\ IF best' # NoColumn /\ Values(df, best') # {}
       THEN \E S \in SUBSET Values(df, best') :
               /\ selected' = Multi(S)
               /\ df' = create_role_filter(df, best', Multi(S))
       ELSE NotShown
    /\ ppc' = "country"
    /\ UNCHANGED <<original_df, summary>>
    /\ UNCHANGED <<collector, config, login_page, metrics, access>>

CountryFilter ==
    /\ ppc = "country"
    /\ Resolve(<<Patterns.country>>)
    /\ IF best' # NoColumn /\ Values(df, best') # {}
       THEN \E S \in SUBSET Values(df, best') :
               /\ selected' = Multi(S)
               /\ df' = create_multiselect_filter(df, best', Multi(S))
       ELSE NotShown
    /\ ppc' = "price"
    /\ UNCHANGED <<original_df, summary>>
    /\ UNCHANGED <<collector, config, login_page, metrics, access>>

PriceFilter ==
    /\ ppc = "price"
    /\ Resolve(<<Patterns.price>>)
    /\ IF /\ best' # NoColumn
          /\ HasColumn(df, best' \o NumericSuffix)
          /\ Values(df, best' \o NumericSuffix) # {}
       THEN \E input \in SliderInputs(df, best' \o NumericSuffix) :
               /\ selected' = input
               /\ df' = create_price_filter(df, best', input)
       ELSE NotShown
    /\ ppc' = "filtered"
    /\ UNCHANGED <<original_df, summary>>
    /\ UNCHANGED <<collector, config, login_page, metrics, access>>

\* run: the test of the filtered frame, then show_key_metrics
ShowKeyMetrics ==
    /\ ppc = "filtered"
    /\ IF df.rows = <<>>
       THEN /\ ppc' = "empty"
            /\ UNCHANGED metrics
       ELSE /\ ppc' = "shown"
            /\ metrics' = show_key_metrics(df)
    /\ UNCHANGED <<original_df, df, before, selected, summary, patterns, best>>
    /\ UNCHANGED <<collector, config, login_page, access>>

NextRender ==
    \/ RunLoadData
    \/ ShowFilterSummary
    \/ DateFilter
    \/ StatusFilter
    \/ ServiceFilter
    \/ RoleFilter
    \/ CountryFilter
    \/ PriceFilter
    \/ ShowKeyMetrics

SpecRender == InitRender /\ [][NextRender]_vars

\* ------------------------------------------------- script runs of a session
\* a browser session opens: nothing in st.session_state
InitSession ==
    /\ CollectorOff
    /\ config = NoConfig
    /\ login_page = NoPage
    /\ ppc = "run"
    /\ original_df = NoFrame
    /\ df = NoFrame
    /\ before = NoFrame
    /\ selected = NoInput
    /\ summary = NoSummary
    /\ patterns = <<>>
    /\ best = NoColumn
    /\ metrics = NoMetrics
    /\ session = SignedOut
    /\ users \in Typed.configured
    /\ submitted = NoSubmission

\* run, not authenticated: show_login_form, then return
ShowLoginForm ==
    /\ ppc = "run"
    /\ ~check_authentication(session)
    /\ \E login_button \in BOOLEAN, username \in Typed.username,
          password \in Typed.password :
          IF ~login_button
          THEN /\ submitted' = NoSubmission
               /\ ppc' = "form"
               /\ UNCHANGED session
          ELSE IF username # "" /\ password # ""
          THEN IF authenticate_user(users, username, password)
               THEN /\ session' = SignedIn(username)
                    /\ submitted' = Submission(username, password, "success")
                    /\ ppc' = "run"
               ELSE /\ submitted' = Submission(username, password, "invalid")
                    /\ ppc' = "form"
                    /\ UNCHANGED session
          ELSE /\ submitted' = Submission(username, password, "missing")
               /\ ppc' = "form"
               /\ UNCHANGED session
    /\ UNCHANGED <<original_df, df, before, selected, summary, patterns, best,
                   metrics, users>>
    /\ UNCHANGED <<collector, config, login_page>>

\* run, authenticated: show_logout_option, then on to load_data
ShowLogoutOption ==
    /\ ppc = "run"
    /\ check_authentication(session)
    /\ \E logout_button \in BOOLEAN :
          IF logout_button
          THEN /\ session' = SignedOut
               /\ ppc' = "run"
          ELSE /\ ppc' = "start"
               /\ UNCHANGED session
    /\ submitted' = NoSubmission
    /\ UNCHANGED <<original_df, df, before, selected, summary, patterns, best,
                   metrics, users>>
    /\ UNCHANGED <<collector, config, login_page>>

\* main: the script runs again with a new AppointmentsDashboard
Rerun ==
    /\ ppc \in {"form", "empty", "shown"}
    /\ ppc' = "run"
    /\ original_df' = NoFrame
    /\ df' = NoFrame
    /\ before' = NoFrame
    /\ selected' = NoInput
    /\ summary' = NoSummary
    /\ patterns' = <<>>
    /\ best' = NoColumn
    /\ metrics' = NoMetrics
    /\ submitted' = NoSubmission
    /\ UNCHANGED <<session, users>>
    /\ UNCHANGED <<collector, config, login_page>>

NextSession ==
    \/ ShowLoginForm
    \/ ShowLogoutOption
    \/ Rerun
    \/ NextRender

SpecSession == InitSession /\ [][NextSession]_vars

TypeOK ==
    /\ pc \in Running \cup {"idle", "exited", "killed", "merge", "merged"}
    /\ rpc \in {"idle", "waiting", "done"}
    /\ exitCode \in {"none", "0", "1"}
    /\ succeeded \subseteq {"login", "export", "save"}
    /\ Len(issued) <= 2
    /\ config \in Configs
    /\ ppc \in {"off", "ask", "answered", "start", "summary", "date", "status",
                "service", "role", "country", "price", "filtered",
                "empty", "shown", "run", "form"}
    /\ Len(df.columns) = Len(df.dtypes)
    /\ \A r \in DOMAIN df.rows : Len(df.rows[r]) = Len(df.columns)
    /\ selected.kind \in {"none", "multi", "range", "partial"}
    /\ summary.kind \in {"none", "all", "n_of_m"}

\* -------------------------------------------------------------- vocabulary
SaveSteps == {"save_remove", "save_open", "save_write"}

\* merge_csv_responses returned from its ID branch
MergeHappened ==
    /\ pc \in {"merged", "exported"}
    /\ Parses(resp1) /\ Parses(resp2) /\ resp1.idcol /\ resp2.idcol

\* both requests answered and merge_csv_responses returned None
MergeAbandoned ==
    /\ resp1.kind \notin {"none", "failed"}
    /\ resp2.kind \notin {"none", "failed"}
    /\ ~(Parses(resp1) /\ Parses(resp2) /\ resp1.idcol /\ resp2.idcol)

\* the first row of s that carries identifier id
FirstWithId(s, id) ==
    s[CHOOSE i \in DOMAIN s :
         s[i].ID = id /\ \A j \in 1..(i - 1) : s[j].ID # id]

\* the collector run is over, and so is the refresh that launched it
RunOver == (rpc = "idle" /\ pc = "exited") \/ rpc = "done"

\* writing the new file failed, or the refreshed file did not validate
PersistFailed ==
    \/ failedAt \in SaveSteps
    \/ rpc = "done" /\ exitCode = "0" /\ refreshResult # "success"

\* ------------------------------------------------------------------ claims

\* C1: when both batches expose ID, the merged output has exactly one row per
\* distinct ID of either batch, and for an ID present in both batches the
\* surviving row is the first batch's (first-seen) row.
C1_MergeKeepsFirst ==
    MergeHappened =>
        LET m == csv_data.rows
            a == resp1.rows
            b == resp2.rows
        IN /\ csv_data.kind = "csv"
           /\ Ids(m) = Ids(a) \cup Ids(b)
           /\ \A i, j \in DOMAIN m : m[i].ID = m[j].ID => i = j
           /\ \A id \in Ids(a) \cap Ids(b) :
                 \E i \in DOMAIN m : m[i] = FirstWithId(a, id)

\* C1 witness: a merge in which the batches share an ID with different rows.
C1_Witness ==
    /\ MergeHappened
    /\ \E i \in DOMAIN resp1.rows, j \in DOMAIN resp2.rows :
          /\ resp1.rows[i].ID = resp2.rows[j].ID
          /\ resp1.rows[i].val # resp2.rows[j].val

\* C2 as stated: after a failed second request export_appointments returns the
\* first response and the run goes on to persist it.
C2_Original ==
    resp2.kind = "failed" =>
        /\ csv_data = resp1
        /\ ~(pc = "exited" /\ failedAt = "exported")

\* C2 amended: after a failed second request export_appointments returns None;
\* the run never reaches the persist step, the destination file keeps the
\* content it had at the start, and the process exits with code 1.
C2_SecondFailureAborts ==
    resp2.kind = "failed" =>
        /\ csv_data = None
        /\ pc \in {"exported", "exited", "killed"}
        /\ "export" \notin succeeded
        /\ csvFile = startFile
        /\ (pc = "exited" => exitCode = "1")

\* C2 witness: the run returned False at its csv_data test after request 2
\* failed behind a first response that had data.
C2_Witness ==
    /\ resp2.kind = "failed"
    /\ Truthy(resp1)
    /\ pc = "exited" /\ failedAt = "exported" /\ cause = "returned_false"

\* C3 as stated: during the persist step of a run that started with a valid
\* file, the destination is the complete previous or the complete new file.
C3_Original ==
    (validate_new(startFile) /\ pc \in SaveSteps) =>
        csvFile \in {startFile, csv_data}

\* C3 amended: the destination holds the complete previous file until save_csv
\* removes it and the complete new file once the write has completed; in
\* between it is absent (after the removal) or empty (after the open).
C3_PersistWindow ==
    validate_new(startFile) =>
        /\ (pc = "save_remove" => csvFile = startFile)
        /\ (pc = "save_open" => csvFile = Absent)
        /\ (pc = "save_write" => csvFile = EmptyBody)
        /\ (pc = "exited" /\ exitCode = "0" /\ rpc # "done" =>
               csvFile = csv_data)

\* C3 witness: a load_data that ran inside the window found no file.
C3_Witness ==
    /\ validate_new(startFile)
    /\ pc = "save_open"
    /\ observed = Absent

\* C4 as stated: after any failure to write or validate the new file, the
\* destination holds the previous content, for every run that started with an
\* existing file.
C4_Original ==
    (startFile # Absent /\ RunOver /\ PersistFailed) => csvFile = startFile

\* C4 amended: the same, for every run launched by refresh_data.
C4_RefreshRestores ==
    (startFile # Absent /\ rpc = "done" /\ PersistFailed) =>
        /\ csvFile = startFile
        /\ refreshResult = "restored"

\* C4 witness: a refresh whose collector failed while writing got the old
\* file back.
C4_Witness ==
    /\ rpc = "done"
    /\ startFile = OldFile
    /\ failedAt = "save_write"
    /\ csvFile = OldFile

\* C5: a refresh over a valid file whose collector failed at login or export
\* leaves the destination as it was and no backup file.
C5_FailedRefreshLeavesFile ==
    (/\ rpc = "done"
     /\ validate_new(startFile)
     /\ failedAt \in {"login", "export1", "export2", "exported"}) =>
        /\ csvFile = startFile
        /\ backupFile = Absent

\* C5 witness: such a refresh, ended by a failed export.
C5_Witness ==
    /\ rpc = "done"
    /\ validate_new(startFile)
    /\ failedAt = "exported"
    /\ refreshResult = "restored"

\* C6 as stated: on every run over an existing file, until the new file is
\* validated the previous content is in the destination or in the backup.
C6_Original ==
    (startFile # Absent /\ pc # "idle" /\ refreshResult # "success") =>
        (csvFile = startFile \/ backupFile = startFile)

\* C6 amended: on every run launched by refresh_data over an existing file,
\* the backup holds the previous content while the collector runs, and it is
\* gone only once the new file validated or the previous content is back in
\* the destination.
C6_RefreshKeepsBackup ==
    (startFile # Absent /\ rpc # "idle") =>
        /\ (rpc = "waiting" => backupFile = startFile)
        /\ (backupFile # startFile =>
               \/ refreshResult = "success" /\ validate_new(csvFile)
               \/ csvFile = startFile)

\* C6 witness: the old file is removed, its content is in the backup.
C6_Witness ==
    /\ rpc = "waiting"
    /\ pc = "save_open"
    /\ startFile = OldFile
    /\ csvFile = Absent
    /\ backupFile = OldFile

\* C7: the output of a successful merge is sorted ascending by ID.
C7_MergeSorted ==
    MergeHappened =>
        \A i, j \in DOMAIN csv_data.rows :
            i < j => csv_data.rows[i].ID <= csv_data.rows[j].ID

\* C7 witness: a merge whose concatenated input was not in ID order.
C7_Witness ==
    /\ MergeHappened
    /\ Len(csv_data.rows) >= 2
    /\ LET c == concat(resp1.rows, resp2.rows) IN
          \E i, j \in DOMAIN c : i < j /\ c[i].ID > c[j].ID

\* C8 as stated: when the merge is abandoned the export returns the first
\* response verbatim and the run is not treated as a failure.
C8_Original ==
    MergeAbandoned =>
        /\ csv_data = resp1
        /\ ~(pc = "exited" /\ failedAt = "exported" /\ cause = "returned_false")

\* C8 amended: when the merge is abandoned the export returns the first
\* response verbatim; the run fails at its csv_data test only when that
\* response is empty, and otherwise takes those very bytes to the persist
\* step.
C8_MergeFallback ==
    /\ MergeAbandoned =>
          /\ csv_data = resp1
          /\ (pc = "exited" /\ failedAt = "exported" /\ cause = "returned_false"
                 => resp1 = EmptyBody)
          /\ (resp1 = EmptyBody => csvFile = startFile)
    /\ (pc \in SaveSteps /\ csv_data.fmt # "pandas") => csv_data = resp1
    /\ (pc = "exited" /\ exitCode = "0" /\ rpc # "done"
           /\ csv_data.fmt # "pandas") => csvFile = resp1

\* C8 witness: a first response without ID column was saved as it came.
C8_Witness ==
    /\ pc = "exited" /\ exitCode = "0"
    /\ resp1.kind = "csv" /\ ~resp1.idcol
    /\ csvFile = resp1

\* C9: when the first request fails the second is never issued, the export
\* yields nothing, the destination is untouched and the run reports failure.
C9_FirstFailureAborts ==
    resp1.kind = "failed" =>
        /\ Len(issued) = 1
        /\ resp2 = None
        /\ csv_data = None
        /\ pc \in {"exported", "exited", "killed"}
        /\ csvFile = startFile
        /\ (pc = "exited" => exitCode = "1")

\* C9 witness: the run returned False after a failed first request.
C9_Witness ==
    /\ resp1.kind = "failed"
    /\ pc = "exited" /\ exitCode = "1"
    /\ failedAt = "exported" /\ cause = "returned_false"

\* C10: the collector exits with 0 exactly when login, export and save all
\* succeeded, with 1 on every failure, and with no other code.
C10_ExitCodes ==
    /\ pc = "exited" =>
          /\ exitCode \in {"0", "1"}
          /\ (exitCode = "0" <=> succeeded = {"login", "export", "save"})
          /\ (cause # "none" => exitCode = "1")
    /\ pc # "exited" => exitCode = "none"

\* C10 witness: a run that went through all three steps and exited with 0.
C10_Witness ==
    /\ pc = "exited"
    /\ exitCode = "0"
    /\ succeeded = {"login", "export", "save"}

\* the merge gave up and export_appointments handed back the first response
MergeFailed ==
    \/ MergeAbandoned
    \/ "export" \in succeeded /\ csv_data.fmt = "server"

\* the order of the steps of run, and where it stops
StepsInOrder ==
    /\ issued # <<>> => "login" \in succeeded
    /\ pc \in {"token", "export1", "export2", "exported"} \cup SaveSteps
          => "login" \in succeeded
    /\ Len(issued) <= 2
    /\ \A i \in DOMAIN issued : issued[i].date = <<"any", "null">>[i]
    /\ pc \in {"idle", "config", "login", "token", "export1"} => issued = <<>>
    /\ pc = "export2" => Len(issued) = 1 /\ resp1 # Failed
    /\ resp2 # None => Len(issued) = 2
    /\ csv_data.fmt = "pandas" => Len(issued) = 2
    /\ "export" \in succeeded <=>
          \/ pc \in SaveSteps
          \/ pc \in {"exited", "killed"}
                /\ failedAt \in SaveSteps \cup {"none"}
    /\ "export" \in succeeded =>
          "login" \in succeeded /\ Truthy(csv_data) /\ Len(issued) = 2
    /\ "save" \in succeeded => "export" \in succeeded
    /\ (pc # "idle" /\ rpc # "done" /\ "export" \notin succeeded)
          => csvFile = startFile
    /\ (pc = "exited" /\ failedAt = "login")
          => issued = <<>> /\ succeeded = {} /\ exitCode = "1"
    /\ (pc = "exited" /\ failedAt = "export1")
          => succeeded = {"login"} /\ exitCode = "1"
    /\ (pc = "exited" /\ failedAt = "exported")
          => succeeded = {"login"} /\ exitCode = "1"
    /\ (pc = "exited" /\ cause = "returned_false")
          => failedAt \in {"login", "exported"} \cup SaveSteps

C12_TokenOptional ==
    /\ \A i \in DOMAIN issued : issued[i].csrf = csrf_token
    /\ issued # <<>> => issued[1] = Payload("any", csrf_token)
    /\ Len(issued) = 2 => issued[2] = [issued[1] EXCEPT !.date = "null"]
    /\ cause = "returned_false" => failedAt # "token"
    /\ (pc \in {"exported"} \cup SaveSteps /\ resp1 # Failed)
          => Len(issued) = 2

\* C12 witness: both requests were issued although no token was found.
C12_Witness ==
    /\ csrf_token = NoToken
    /\ Len(issued) = 2
    /\ pc = "exported"

\* the source load_config selected holds all three fields
ConfigComplete ==
    \/ config.file = "complete"
    \/ config.file = "absent" /\ config.env

\* C13: the configuration comes from the file when there is one, else from
\* the environment; when the selected source is incomplete the process exits
\* with code 1 before login and before any request, also when the file is
\* incomplete and the environment is complete.
C13_ConfigValidated ==
    /\ (pc \in Running \ {"config"} \/ issued # <<>> \/ succeeded # {})
          => ConfigComplete
    /\ ~ConfigComplete =>
          /\ pc \in {"idle", "config", "exited", "killed"}
          /\ issued = <<>> /\ succeeded = {} /\ csrf_token = NoToken
          /\ (pc = "exited" => exitCode = "1" /\ failedAt = "config")
    /\ cause = "config" <=>
          (pc = "exited" /\ ~ConfigComplete /\ cause \notin {"interrupt"})

\* C13 witness: an incomplete file with a complete environment, and the
\* process exited with 1 at load_config.
C13_Witness ==
    /\ config.file = "incomplete"
    /\ config.env
    /\ pc = "exited"
    /\ exitCode = "1"
    /\ cause = "config"
    /\ issued = <<>>

\* positions of the columns whose lowered name contains the lowered pattern
Hits(f, pattern) ==
    {i \in DOMAIN f.columns : Contains(Lower(pattern), Lower(f.columns[i]))}

\* C14: get_best_column tries the patterns in the caller's order and, for the
\* first pattern that is a case-insensitive substring of some column name,
\* returns the first such column in file order; it returns none when no
\* pattern matches; for columns "Start Date", "Created_Date" and patterns
\* "appointment date", "date", "start" the result is "Start Date".
C14_BestColumn ==
    ppc = "answered" =>
        LET live == {j \in DOMAIN patterns : Hits(df, patterns[j]) # {}}
        IN  /\ live = {} => best = NoColumn
            /\ live # {} =>
                  best = df.columns[Least(Hits(df, patterns[Least(live)]))]
            /\ (/\ df.columns = <<Names.start_date, Names.created_date>>
                /\ patterns = <<Patterns.appointment_date, Patterns.date,
                                Patterns.start>>)
                  => best = Names.start_date /\ Least(live) = 2

\* C14 witness: the call of the example was made and answered "Start Date".
C14_Witness ==
    /\ ppc = "answered"
    /\ df.columns = <<Names.start_date, Names.created_date>>
    /\ patterns = <<Patterns.appointment_date, Patterns.date, Patterns.start>>
    /\ best = Names.start_date

\* a filter of the render has just run
AfterDate == ppc = "status"
AfterStatus == ppc = "service"
AfterMultiselect == ppc \in {"service", "role", "country", "price"}
AfterCountry == ppc = "price"
AfterPrice == ppc = "filtered"

\* the name is one process_data derives a numeric column for
PriceLike(name) ==
    \/ Contains(Patterns.payment, Lower(name))
    \/ Contains(Patterns.price, Lower(name))

\* the name is one process_data converts to timestamps in place
DateLike(name) ==
    \/ Contains(Patterns.date, Lower(name))
    \/ Contains(Patterns.created, Lower(name))

\* C15: when the filters of a render have removed at least one row, the
\* summary of that render reports "N of M", N the filtered and M the original
\* row count.
C15_Original ==
    (ppc = "filtered" /\ Len(df.rows) < Len(original_df.rows))
        => summary = Showing("n_of_m", Len(df.rows), Len(original_df.rows))

\* C16: after process_data every column of the loaded file that is not a
\* date column, a column named like a derived column included, still exists
\* with the values the file had.
C16_Original ==
    ppc = "summary" =>
        \A i \in DOMAIN original_df.columns :
            ~DateLike(original_df.columns[i]) =>
                /\ HasColumn(df, original_df.columns[i])
                /\ Cells(df, original_df.columns[i])
                      = Cells(original_df, original_df.columns[i])

\* C17: in the status filter a selection of only values that the data does
\* not hold gives no rows, an empty selection gives the rows unchanged, and
\* any other selection gives exactly the rows whose status is a selected
\* value that the data holds.
C17_StatusSelection ==
    (AfterStatus /\ selected.kind = "multi") =>
        LET valid == selected.set \cap Values(before, best)
        IN  /\ selected.set = {} => df = before
            /\ (selected.set # {} /\ valid = {}) => df.rows = <<>>
            /\ selected.set # {} => df = IsIn(before, best, valid)
            /\ df.columns = before.columns

\* C17 witness: only a status the data does not hold was selected, and the
\* rows are gone.
C17_Witness ==
    /\ AfterStatus
    /\ selected = Multi({Txt(Expired)})
    /\ before.rows # <<>>
    /\ df.rows = <<>>

\* C18: a status, service, role or country filter left with nothing
\* selected, and a price filter left at the full range, leave the working
\* set as it was, rows with a missing value in the column included.
C18_EmptySelection ==
    /\ (AfterMultiselect /\ selected = Multi({})) => df = before
    /\ (/\ AfterPrice
        /\ selected.kind = "range"
        /\ selected.lo = Least(Numbers(before, best \o NumericSuffix))
        /\ selected.hi = Greatest(Numbers(before, best \o NumericSuffix)))
          => df = before

\* C18 witness: the country filter was shown and left empty on rows of which
\* one has no country.
C18_Witness ==
    /\ AfterCountry
    /\ selected = Multi({})
    /\ \E r \in DOMAIN before.rows : Cells(before, best)[r] = NA
    /\ df = before

\* C19: the date filter at the full range from the least to the greatest
\* date leaves the rows as they were; at any other range it keeps exactly the
\* rows whose date, the time of day dropped, lies between the two bounds,
\* bounds included.
C19_DateRange ==
    (AfterDate /\ selected.kind = "range") =>
        LET days == {DateOf(c) : c \in Values(before, best)}
            full == selected.lo = Least(days) /\ selected.hi = Greatest(days)
        IN  /\ full => df = before
            /\ ~full =>
                  df = Rows(before,
                            {r \in DOMAIN before.rows :
                                /\ Cells(before, best)[r] # NA
                                /\ DateOf(Cells(before, best)[r])
                                      >= selected.lo
                                /\ DateOf(Cells(before, best)[r])
                                      <= selected.hi})

\* C19 witness: the range is the first day alone, and the row of that day's
\* evening is kept while another row is dropped.
C19_Witness ==
    /\ AfterDate
    /\ selected = Range(0, 0)
    /\ Len(df.rows) < Len(before.rows)
    /\ \E r \in DOMAIN df.rows : Cells(df, best)[r] = Ts(18)

\* C20: the price filter keeps the rows whose derived price lies between the
\* bounds, bounds included, leaves the rows as they were at the full range,
\* and is shown whenever a payment or price column has a derived numeric
\* column with a value.
C20_Original ==
    AfterPrice =>
        /\ selected.kind = "range" =>
              LET prices == Numbers(before, best \o NumericSuffix)
              IN  IF /\ selected.lo = Least(prices)
                     /\ selected.hi = Greatest(prices)
                  THEN df = before
                  ELSE df = IsIn(before, best \o NumericSuffix,
                                   {Num(x) : x \in selected.lo..selected.hi})
        /\ (\E i \in DOMAIN before.columns :
               /\ PriceLike(before.columns[i])
               /\ HasColumn(before, before.columns[i] \o NumericSuffix)
               /\ Values(before, before.columns[i] \o NumericSuffix) # {})
              => selected.kind = "range"

\* the column the revenue metrics resolve: the first one named like a
\* payment, else the first one named like a price
RevenueColumn(f) ==
    LET paid == Hits(f, Patterns.payment)
        priced == Hits(f, Patterns.price)
    IN  IF paid # {} THEN f.columns[Least(paid)]
        ELSE IF priced # {} THEN f.columns[Least(priced)]
        ELSE NoColumn

C22_CurrencyExtraction ==
    ppc = "summary" =>
        \A i \in DOMAIN original_df.columns :
            LET name == original_df.columns[i]
                Euro4550 == Txt(<<"€", "4", "5", ".", "5", "0">>)
                Euro10 == Txt(<<"€", "1", "0">>)
                NotAvailable == Txt(<<"N", "/", "A">>)
            IN  (PriceLike(name) /\ original_df.dtypes[i] = "object") =>
                    \A r \in DOMAIN original_df.rows :
                          LET c == original_df.rows[r][i]
                              d == Cells(df, name \o NumericSuffix)[r]
                          IN  /\ HasColumn(df, name \o NumericSuffix)
                              /\ DType(df, name \o NumericSuffix) = "float64"
                              /\ c = Euro4550 => d = Num(4550)
                              /\ c = Euro10 => d = Num(1000)
                              /\ c = NotAvailable => d = NA
                              /\ d # NA <=>
                                    /\ c.k = "txt"
                                    /\ \E j \in DOMAIN c.s : IsDigit(c.s[j])

\* C22 witness: a loaded file held "€45.50" and "N/A" in a price column and
\* process_data has run.
C22_Witness ==
    /\ ppc = "summary"
    /\ HasColumn(original_df, Names.price)
    /\ Txt(<<"€", "4", "5", ".", "5", "0">>)
          \in Values(original_df, Names.price)
    /\ \E r \in DOMAIN original_df.rows :
          /\ Cells(original_df, Names.price)[r] = Txt(<<"N", "/", "A">>)
          /\ Cells(df, Names.price \o NumericSuffix)[r] = NA

\* the body of the login answer holds one of the tokens
Holds(tokens) == \E t \in tokens : Contains(t, Lower(login_page.text))

\* login has returned false and the run has stopped there with exit code 1
LoginRefused ==
    /\ pc = "exited"
    /\ failedAt = "login"
    /\ cause = "returned_false"
    /\ exitCode = "1"

\* C23 as stated: a transport failure leaves login as an exception, not as
\* the false that a credential rejection returns; otherwise a success token
\* gives success, an error token without a success token gives false, and a
\* body with neither gives success.
C23_Original ==
    pc # "login" =>
        /\ login_page.transport => (pc = "exited" /\ cause = "exception")
        /\ ~login_page.transport =>
              IF Holds(Indicators.success) THEN pc = "token"
              ELSE IF Holds(Indicators.error) THEN LoginRefused
              ELSE pc = "token"

\* C23: a transport failure makes login return false, as a credential
\* rejection does, and the run stops with exit code 1 in both cases;
\* otherwise a success token gives success (also beside an error token), an
\* error token without a success token gives false, and a body with neither
\* gives success.
C23_LoginClassification ==
    pc # "login" =>
        /\ login_page.transport => LoginRefused
        /\ ~login_page.transport =>
              /\ Holds(Indicators.success) =>
                    (pc = "token" /\ "login" \in succeeded)
              /\ (~Holds(Indicators.success) /\ Holds(Indicators.error))
                    => LoginRefused
              /\ (~Holds(Indicators.success) /\ ~Holds(Indicators.error))
                    => (pc = "token" /\ "login" \in succeeded)

\* C23 witness: a body with both an error token and a success token was
\* taken as a successful login.
C23_Witness ==
    /\ pc = "token"
    /\ ~login_page.transport
    /\ Holds(Indicators.success)
    /\ Holds(Indicators.error)

\* the rows a are rows of b, in the order b has them
IsSubSeq(a, b) ==
    \E at \in [DOMAIN a -> DOMAIN b] :
        /\ \A i, j \in DOMAIN a : i < j => at[i] < at[j]
        /\ \A i \in DOMAIN a : a[i] = b[at[i]]

\* C24: once the file is loaded, the snapshot original_df is the file as
\* read and no later step changes it; the working set holds rows of the
\* processed file in their order; and every step after the load leaves the
\* working set's columns alone and its rows a sub-sequence of what they were.
C24_FiltersOnlyRemove ==
    /\ [](ppc \in {"summary", "date", "status", "service", "role", "country",
                   "price", "filtered", "empty", "shown"}
            => /\ original_df \in CsvFiles
               /\ df.columns = process_data(original_df).columns
               /\ IsSubSeq(df.rows, process_data(original_df).rows))
    /\ [][ppc # "start" => /\ original_df' = original_df
                           /\ df'.columns = df.columns
                           /\ df'.dtypes = df.dtypes
                           /\ IsSubSeq(df'.rows, df.rows)]_vars

\* C24 witness: the filters of one render removed some rows and kept others.
C24_Witness ==
    /\ ppc = "filtered"
    /\ 0 < Len(df.rows)
    /\ Len(df.rows) < Len(original_df.rows)
    /\ original_df \in CsvFiles

\* the configured pair is complete
Configured == users.username # "" /\ users.password # ""

\* C25: load_data, the filters and the metrics (and what run shows after
\* them) are reached only with the authenticated flag true; the flag is true
\* only for the configured username, and turns true only on a submission
\* whose non-empty username and password are the configured pair, so never
\* when no pair is configured; a logout turns the flag false and clears the
\* username, and a run with the flag false shows the login form and loads
\* nothing.
C25_SessionGating ==
    /\ []((ppc \in {"start", "summary", "date", "status", "service", "role",
                    "country", "price", "filtered", "empty", "shown"}
            \/ original_df # NoFrame \/ df # NoFrame \/ metrics # NoMetrics)
              => session.authenticated)
    /\ [](session.authenticated
              => (Configured /\ session.username = users.username))
    /\ [](ppc = "form" => ~session.authenticated)
    /\ [][(~session.authenticated /\ session'.authenticated)
              => /\ Configured
                 /\ submitted'.username = users.username
                 /\ submitted'.password = users.password]_vars
    /\ [][(session.authenticated /\ ~session'.authenticated)
              => (session' = SignedOut /\ ppc' = "run")]_vars
    /\ [][(ppc = "run" /\ ~session.authenticated)
              => (ppc' \in {"run", "form"} /\ original_df' = NoFrame)]_vars

\* C25 witness: in a session that began signed out, a file was loaded,
\* filtered and its metrics shown.
C25_Witness ==
    /\ ppc = "shown"
    /\ session = SignedIn("admin")
    /\ users = Users("admin", "secret")
    /\ metrics.total.num > 0

====
